---- MODULE Spec2Model ----
(***************************************************************************)
(* Model of app/main.py: the /process handler of the slide-deck watermark  *)
(* service, with the helpers it calls (validate_pptx_bytes,                *)
(* sanitize_filename, add_name_to_all_slides, convert_pptx_to_pdf).        *)
(* Text is modelled as a sequence of one-character strings.                *)
(***************************************************************************)
EXTENDS Integers, Sequences, FiniteSets, TLC

VARIABLES
    sanIn, sanOut,                        \* sanitize_filename: argument, result
    deck, labels,                         \* add_name_to_all_slides: the deck, the labels applied
    pc, req, env, name, origName, watermarked,
    tdState, tdFiles, conv, pdfBytes, exc, calls, outcome   \* process: one request

sanVars == <<sanIn, sanOut>>
annVars == <<deck, labels>>
procVars == <<pc, req, env, name, origName, watermarked,
              tdState, tdFiles, conv, pdfBytes, exc, calls, outcome>>
vars == <<sanIn, sanOut, deck, labels,
          pc, req, env, name, origName, watermarked,
          tdState, tdFiles, conv, pdfBytes, exc, calls, outcome>>

-----------------------------------------------------------------------------
(* Characters and text helpers                                             *)

LowerLetters ==
    <<"a","b","c","d","e","f","g","h","i","j","k","l","m",
      "n","o","p","q","r","s","t","u","v","w","x","y","z">>

UpperLetters ==
    <<"A","B","C","D","E","F","G","H","I","J","K","L","M",
      "N","O","P","Q","R","S","T","U","V","W","X","Y","Z">>

Digits == {"0","1","2","3","4","5","6","7","8","9"}

Range(s) == {s[i] : i \in 1..Len(s)}

\* the characters str.strip() removes
Whitespace == {" ", "\t", "\n", "\r"}

\* the character class [a-zA-Z0-9._ -] of the pattern in sanitize_filename
WhitelistChars ==
    Range(LowerLetters) \cup Range(UpperLetters) \cup Digits \cup {".", "_", " ", "-"}

\* str.lower() on one character
LowerChar(c) ==
    IF c \in Range(UpperLetters)
    THEN LowerLetters[CHOOSE i \in 1..Len(UpperLetters) : UpperLetters[i] = c]
    ELSE c

Lower(s) == [i \in 1..Len(s) |-> LowerChar(s[i])]

EndsWith(s, suffix) ==
    /\ Len(s) >= Len(suffix)
    /\ SubSeq(s, Len(s) - Len(suffix) + 1, Len(s)) = suffix

RECURSIVE LStrip(_)
LStrip(s) ==
    IF s = <<>> THEN <<>>
    ELSE IF Head(s) \in Whitespace THEN LStrip(Tail(s)) ELSE s

RECURSIVE RStrip(_)
RStrip(s) ==
    IF s = <<>> THEN <<>>
    ELSE IF s[Len(s)] \in Whitespace THEN RStrip(SubSeq(s, 1, Len(s) - 1)) ELSE s

\* (x or "").strip()
Strip(s) == RStrip(LStrip(s))

\* s[:n]
Prefix(s, n) == SubSeq(s, 1, IF Len(s) < n THEN Len(s) ELSE n)

-----------------------------------------------------------------------------
(* sanitize_filename                                                       *)

\* name[:180]
MaxNameChars == 180

\* the fallback of sanitize_filename: "upload.pptx"
DefaultName == <<"u","p","l","o","a","d",".","p","p","t","x">>

\* the 1-based positions of s holding a character outside the class
BadAt(s) == {i \in 1..Len(s) : s[i] \notin WhitelistChars}
GoodAt(s) == {i \in 1..Len(s) : s[i] \in WhitelistChars}

Least(S) == CHOOSE i \in S : \A j \in S : i <= j

\* a variant replacing each offending character on its own (pattern without "+")
SubBadEach(s) == [i \in 1..Len(s) |-> IF s[i] \in WhitelistChars THEN s[i] ELSE "_"]

\* re.sub(r"[^a-zA-Z0-9._ -]+", "_", name): the text up to the next match is
\* copied; the "+" makes the match the maximal run of offending characters,
\* which is replaced by one "_"; the scan resumes after the run
RECURSIVE SubBadRuns(_)
SubBadRuns(s) ==
    IF BadAt(s) = {} THEN s
    ELSE LET first == Least(BadAt(s))
             rest == SubSeq(s, first, Len(s))
             after == IF GoodAt(rest) = {} THEN <<>>
                      ELSE SubSeq(rest, Least(GoodAt(rest)), Len(rest))
         IN  SubSeq(s, 1, first - 1) \o <<"_">> \o SubBadRuns(after)

sanitize_filename(n) ==
    LET stripped == Strip(n)
        subbed == SubBadRuns(stripped)
        cut == Prefix(subbed, MaxNameChars)
    IN  IF cut = <<>> THEN DefaultName ELSE cut

-----------------------------------------------------------------------------
(* add_name_to_all_slides                                                  *)
(* A deck is [slide_width, slide_height, slides]; a slide is the sequence  *)
(* of its shapes; a shape is [name, text, left, top, width, height] with   *)
(* lengths in EMU, the native unit of the container.                       *)

margin_right_mm == 12
margin_bottom_mm == 10
box_width_mm == 70
box_height_mm == 10

tag_shape_name == "__WATERMARK_NAME__"

\* mm / 25.4, kept exact as the fraction <<numerator, denominator>>
mm_to_inches(mm) == <<mm * 10, 254>>

\* pptx.util.Inches(x): int(x * 914400)
Inches(x) == (x[1] * 914400) \div x[2]

BoxWidth == Inches(mm_to_inches(box_width_mm))
BoxHeight == Inches(mm_to_inches(box_height_mm))

\* a variant that forgets the right margin
BoxLeftNoMargin(slideWidth) == slideWidth - BoxWidth

\* left = sw - width - Inches(mm_to_inches(margin_right_mm))
BoxLeft(slideWidth) == slideWidth - BoxWidth - Inches(mm_to_inches(margin_right_mm))

\* top = sh - height - Inches(mm_to_inches(margin_bottom_mm))
BoxTop(slideHeight) == slideHeight - BoxHeight - Inches(mm_to_inches(margin_bottom_mm))

\* slide.shapes.add_textbox(left, top, width, height), named with the tag,
\* its single run holding the label
Textbox(d, label) ==
    [name |-> tag_shape_name, text |-> label,
     left |-> BoxLeft(d.slide_width), top |-> BoxTop(d.slide_height),
     width |-> BoxWidth, height |-> BoxHeight]

IsTagged(shape) == shape.name = tag_shape_name

\* a variant that removes only the first prior watermark
RemoveFirstTagged(slide) ==
    IF \E i \in 1..Len(slide) : IsTagged(slide[i])
    THEN LET k == CHOOSE i \in 1..Len(slide) :
                     /\ IsTagged(slide[i])
                     /\ \A j \in 1..(i - 1) : ~IsTagged(slide[j])
         IN  SubSeq(slide, 1, k - 1) \o SubSeq(slide, k + 1, Len(slide))
    ELSE slide

\* the shapes the first loop leaves on the slide
RemoveTagged(slide) == SelectSeq(slide, LAMBDA shape : ~IsTagged(shape))

\* one iteration of "for slide in prs.slides"
AnnotateSlide(d, slide, label) == Append(RemoveTagged(slide), Textbox(d, label))

add_name_to_all_slides(d, label) ==
    [d EXCEPT !.slides = [i \in 1..Len(d.slides) |-> AnnotateSlide(d, d.slides[i], label)]]

-----------------------------------------------------------------------------
(* validate_pptx_bytes, check_soffice_exists, convert_pptx_to_pdf          *)
(* A payload is [size, isZip, entries, parsable, deck]: its length,        *)
(* whether zipfile can open it, the names of its entries, whether          *)
(* python-pptx can parse it, and the deck it parses to.                    *)

ManifestEntry == "[Content_Types].xml"

\* TRUE when validate_pptx_bytes returns, FALSE when it raises ValueError
validate_pptx_bytes(raw) == raw.isZip /\ ManifestEntry \in raw.entries

\* p is what running "soffice --version" did: [raises, rc, stdout]
check_soffice_exists(p) ==
    IF p.raises THEN FALSE ELSE (p.rc = 0 \/ Strip(p.stdout) # <<>>)

ConversionFailed == "PDF conversion failed (see logs)."
NoOutput == "PDF conversion produced no output."

Raise(type, msg) == [kind |-> "raise", type |-> type, msg |-> msg]
Return(v) == [kind |-> "return", value |-> v]

\* Path(out_dir).glob("*.pdf")
GlobPdf(files) == {f \in files : f.ext = "pdf"}

\* a variant that trusts whatever is in the directory, whatever the exit code
ConvertIgnoringExit(tool, stem, files) ==
    IF tool.raises THEN {Raise("FileNotFoundError", "soffice")}
    ELSE IF \E f \in files : f.stem = stem /\ f.ext = "pdf"
         THEN {Return([stem |-> stem, ext |-> "pdf"])}
         ELSE IF GlobPdf(files) = {} THEN {Raise("RuntimeError", NoOutput)}
              ELSE {Return([stem |-> f.stem, ext |-> f.ext]) : f \in GlobPdf(files)}

\* The results convert_pptx_to_pdf can have for the tool behaviour `tool`
\* ([raises, rc, produced]), the stem of pptx_path and the files in out_dir
\* once the tool has run. pdfs[0] is the first entry in directory order,
\* which the file system chooses: any of the .pdf files.
convert_pptx_to_pdf(tool, stem, files) ==
    IF tool.raises THEN {Raise("FileNotFoundError", "soffice")}
    ELSE IF tool.rc # 0 THEN {Raise("RuntimeError", ConversionFailed)}
    ELSE IF \E f \in files : f.stem = stem /\ f.ext = "pdf"
         THEN {Return([stem |-> stem, ext |-> "pdf"])}
         ELSE IF GlobPdf(files) = {} THEN {Raise("RuntimeError", NoOutput)}
              ELSE {Return([stem |-> f.stem, ext |-> f.ext]) : f \in GlobPdf(files)}

\* Path(name).stem, for a name without separators
PathStem(s) ==
    LET dots == {i \in 1..Len(s) : s[i] = "."}
    IN  IF dots = {} THEN s
        ELSE LET k == CHOOSE i \in dots : \A j \in dots : j <= i
             IN  IF k > 1 /\ k < Len(s) THEN SubSeq(s, 1, k - 1) ELSE s

-----------------------------------------------------------------------------
(* process: the handler of POST /process, one step per statement           *)

\* 50 * 1024 * 1024
MaxUploadBytes == 50 * 1024 * 1024

PptxSuffix == <<".","p","p","t","x">>
NamedSuffix == <<"_","_","n","a","m","e","d",".","p","d","f">>

NameRequired == "Name is required."
UploadPptx == "Upload a .pptx file."
TooLargeDetail == "File too large (max 50 MB)."
Misconfigured == "Server misconfigured (LibreOffice missing)."
ServerError == "Server error (check logs)."

NoExc == [type |-> "none", status |-> 0, detail |-> "", stage |-> ""]
HTTPException(status, detail, stage) ==
    [type |-> "HTTPException", status |-> status, detail |-> detail, stage |-> stage]
Error(type, msg, stage) ==
    [type |-> type, status |-> 0, detail |-> msg, stage |-> stage]

NoOutcome == [status |-> 0, detail |-> "", body |-> "", download_name |-> <<>>]
Failure(status, detail) ==
    [status |-> status, detail |-> detail, body |-> "", download_name |-> <<>>]

NoDeck == [slide_width |-> 0, slide_height |-> 0, slides |-> <<>>]
NoConv == [called |-> FALSE, tool |-> [raises |-> FALSE, rc |-> 0, produced |-> {}],
           files |-> {}, result |-> Raise("", "")]

InPptx == [stem |-> "watermarked", ext |-> "pptx"]

Called(stage) == calls' = Append(calls, stage)

\* raise inside the outer try, outside the temporary directory
RaiseTo(e) == exc' = e /\ pc' = "raised"

\* a variant that logs the failure and falls out of the block without raising
SwallowInWith(e) == exc' = exc /\ pc' = "exit_with"

\* raise inside "with tempfile.TemporaryDirectory() as td"
RaiseInWith(e) == exc' = e /\ pc' = "exit_with"

\* a variant without the size gate
NeverTooLarge(raw) == FALSE

\* len(raw) > 50 * 1024 * 1024
TooLarge(raw) == raw.size > MaxUploadBytes

\* name = (name or "").strip(); if not name: raise HTTPException(400)
CheckName ==
    /\ pc = "check_name"
    /\ name' = Strip(req.label)
    /\ IF name' = <<>>
       THEN RaiseTo(HTTPException(400, NameRequired, "gate"))
       ELSE pc' = "check_ext" /\ exc' = exc
    /\ UNCHANGED <<req, env, origName, watermarked, tdState, tdFiles, conv,
                   pdfBytes, calls, outcome>>

\* if not (file.filename or "").lower().endswith(".pptx"): raise HTTPException(400)
CheckExtension ==
    /\ pc = "check_ext"
    /\ IF ~EndsWith(Lower(req.filename), PptxSuffix)
       THEN RaiseTo(HTTPException(400, UploadPptx, "gate"))
       ELSE pc' = "check_size" /\ exc' = exc
    /\ UNCHANGED <<req, env, name, origName, watermarked, tdState, tdFiles, conv,
                   pdfBytes, calls, outcome>>

\* raw = await file.read(); if len(raw) > limit: raise HTTPException(413)
CheckSize ==
    /\ pc = "check_size"
    /\ IF TooLarge(req.payload)
       THEN RaiseTo(HTTPException(413, TooLargeDetail, "gate"))
       ELSE pc' = "validate" /\ exc' = exc
    /\ UNCHANGED <<req, env, name, origName, watermarked, tdState, tdFiles, conv,
                   pdfBytes, calls, outcome>>

\* validate_pptx_bytes(raw); original_filename = sanitize_filename(...)
Validate ==
    /\ pc = "validate"
    /\ Called("validate")
    /\ IF validate_pptx_bytes(req.payload)
       THEN /\ origName' = sanitize_filename(IF req.filename = <<>> THEN DefaultName
                                             ELSE req.filename)
            /\ pc' = "upload" /\ exc' = exc
       ELSE /\ RaiseTo(Error("ValueError", "Uploaded file is not a valid .pptx", "validate"))
            /\ origName' = origName
    /\ UNCHANGED <<req, env, name, watermarked, tdState, tdFiles, conv,
                   pdfBytes, outcome>>

\* a variant without the inner try/except: the failure escapes
PropagateCollaboratorError == RaiseTo(Error("Exception", "collaborator failed", "collaborator"))

\* except Exception as e: logger.exception(...) around the two collaborators
CatchCollaboratorError == pc' = "probe" /\ exc' = exc

\* drive_file_id = upload_original_to_drive(raw, original_filename)
Upload ==
    /\ pc = "upload"
    /\ Called("upload")
    /\ \E r \in {"ok", "fail", "unconfigured"} :
          /\ env' = [env EXCEPT !.drive = r]
          /\ IF r = "ok" THEN pc' = "notify" /\ exc' = exc
             ELSE CatchCollaboratorError
    /\ UNCHANGED <<req, name, origName, watermarked, tdState, tdFiles, conv,
                   pdfBytes, outcome>>

\* send_notification_email(original_filename, drive_file_id)
Notify ==
    /\ pc = "notify"
    /\ Called("notify")
    /\ \E r \in {"ok", "fail", "unconfigured"} :
          /\ env' = [env EXCEPT !.smtp = r]
          /\ IF r = "fail" THEN CatchCollaboratorError
             ELSE pc' = "probe" /\ exc' = exc
    /\ UNCHANGED <<req, name, origName, watermarked, tdState, tdFiles, conv,
                   pdfBytes, outcome>>

\* what "soffice --version" can do
ProbeRuns ==
    [raises : {FALSE}, rc : {0, 1}, stdout : {<<>>, <<" ", "\n">>, <<"L", "O", "\n">>}]
    \cup {[raises |-> TRUE, rc |-> 0, stdout |-> <<>>]}

\* if not check_soffice_exists(): raise HTTPException(500)
Probe ==
    /\ pc = "probe"
    /\ Called("probe")
    /\ \E p \in ProbeRuns :
          IF check_soffice_exists(p)
          THEN /\ env' = [env EXCEPT !.probe = "available"]
               /\ pc' = "annotate" /\ exc' = exc
          ELSE /\ env' = [env EXCEPT !.probe = "unavailable"]
               /\ RaiseTo(HTTPException(500, Misconfigured, "probe"))
    /\ UNCHANGED <<req, name, origName, watermarked, tdState, tdFiles, conv,
                   pdfBytes, outcome>>

\* watermarked = add_name_to_all_slides(raw, name)
Annotate ==
    /\ pc = "annotate"
    /\ Called("annotate")
    /\ IF req.payload.parsable
       THEN /\ watermarked' = add_name_to_all_slides(req.payload.deck, name)
            /\ pc' = "mkdtemp" /\ exc' = exc
       ELSE /\ RaiseTo(Error("PackageNotFoundError", "not a presentation", "annotate"))
            /\ watermarked' = watermarked
    /\ UNCHANGED <<req, env, name, origName, tdState, tdFiles, conv, pdfBytes, outcome>>

\* with tempfile.TemporaryDirectory() as td:
MakeTempDir ==
    /\ pc = "mkdtemp"
    /\ Called("mkdtemp")
    /\ \E ok \in BOOLEAN :
          IF ok
          THEN tdState' = "live" /\ pc' = "write" /\ exc' = exc
          ELSE tdState' = tdState /\ RaiseTo(Error("OSError", "mkdtemp", "mkdtemp"))
    /\ UNCHANGED <<req, env, name, origName, watermarked, tdFiles, conv, pdfBytes, outcome>>

\* in_pptx.write_bytes(watermarked); a failed write may leave a partial file
WriteInput ==
    /\ pc = "write"
    /\ Called("write")
    /\ \E ok \in BOOLEAN :
          IF ok
          THEN /\ tdFiles' = {[stem |-> InPptx.stem, ext |-> InPptx.ext,
                               content |-> "watermarked"]}
               /\ pc' = "convert" /\ exc' = exc
          ELSE /\ tdFiles' \in {{}, {[stem |-> InPptx.stem, ext |-> InPptx.ext,
                                      content |-> "partial"]}}
               /\ RaiseInWith(Error("OSError", "write_bytes", "write"))
    /\ UNCHANGED <<req, env, name, origName, watermarked, tdState, conv, pdfBytes, outcome>>

\* the files the external tool may leave in out_dir
ToolFiles ==
    {[stem |-> "watermarked", ext |-> "pdf", content |-> "PDF-A"],
     [stem |-> "Untitled", ext |-> "pdf", content |-> "PDF-B"],
     [stem |-> "slides", ext |-> "pdf", content |-> "PDF-C"],
     [stem |-> "lu42", ext |-> "tmp", content |-> "LOCK"]}

\* what running the conversion command can do
ToolRuns ==
    [raises : {FALSE}, rc : {0, 1}, produced : SUBSET ToolFiles]
    \cup {[raises |-> TRUE, rc |-> 0, produced |-> {}]}

\* pdf_path = convert_pptx_to_pdf(str(in_pptx), td)
Convert ==
    /\ pc = "convert"
    /\ Called("convert")
    /\ \E tool \in ToolRuns :
          /\ tdFiles' = tdFiles \cup tool.produced
          /\ \E r \in convert_pptx_to_pdf(tool, InPptx.stem, tdFiles') :
                /\ conv' = [called |-> TRUE, tool |-> tool, files |-> tdFiles', result |-> r]
                /\ IF r.kind = "return"
                   THEN pc' = "read" /\ exc' = exc
                   ELSE RaiseInWith(Error(r.type, r.msg, "convert"))
    /\ UNCHANGED <<req, env, name, origName, watermarked, tdState, pdfBytes, outcome>>

\* pdf_bytes = Path(pdf_path).read_bytes()
ReadPdf ==
    /\ pc = "read"
    /\ Called("read")
    /\ \E ok \in BOOLEAN :
          IF ok
          THEN /\ \E f \in tdFiles :
                     /\ f.stem = conv.result.value.stem
                     /\ f.ext = conv.result.value.ext
                     /\ pdfBytes' = f.content
               /\ pc' = "exit_with" /\ exc' = exc
          ELSE /\ pdfBytes' = pdfBytes
               /\ RaiseInWith(Error("OSError", "read_bytes", "read"))
    /\ UNCHANGED <<req, env, name, origName, watermarked, tdState, tdFiles, conv, outcome>>

\* a variant that removes the directory only at the end of the success path
ExitWithOnSuccessOnly ==
    /\ pc = "exit_with"
    /\ IF exc = NoExc
       THEN tdState' = "removed" /\ tdFiles' = {} /\ pc' = "respond"
       ELSE tdState' = tdState /\ tdFiles' = tdFiles /\ pc' = "raised"
    /\ UNCHANGED <<req, env, name, origName, watermarked, conv, pdfBytes, exc,
                   calls, outcome>>

\* TemporaryDirectory.__exit__: the directory and everything under it is
\* removed, then a pending exception continues to the handlers
ExitWith ==
    /\ pc = "exit_with"
    /\ tdState' = "removed"
    /\ tdFiles' = {}
    /\ pc' = IF exc = NoExc THEN "respond" ELSE "raised"
    /\ UNCHANGED <<req, env, name, origName, watermarked, conv, pdfBytes, exc,
                   calls, outcome>>

\* download_name = Path(original_filename).stem + "__named.pdf";
\* return StreamingResponse(io.BytesIO(pdf_bytes), ...)
Respond ==
    /\ pc = "respond"
    /\ outcome' = [status |-> 200, detail |-> "", body |-> pdfBytes,
                   download_name |-> PathStem(origName) \o NamedSuffix]
    /\ pc' = "done"
    /\ UNCHANGED <<req, env, name, origName, watermarked, tdState, tdFiles, conv,
                   pdfBytes, exc, calls>>

\* a variant without "except HTTPException: raise"
HandlerOutcomeNoReraise(e) == Failure(500, ServerError)

\* except HTTPException: raise / except Exception: raise HTTPException(500)
HandlerOutcome(e) ==
    IF e.type = "HTTPException" THEN Failure(e.status, e.detail)
    ELSE Failure(500, ServerError)

Handle ==
    /\ pc = "raised"
    /\ outcome' = HandlerOutcome(exc)
    /\ pc' = "done"
    /\ UNCHANGED <<req, env, name, origName, watermarked, tdState, tdFiles, conv,
                   pdfBytes, exc, calls>>

-----------------------------------------------------------------------------
(* Inputs                                                                  *)

MaxSlides == 2
MaxShapes == 2
MaxRuns == 2
MaxShortLen == 3

SeqsUpTo(S, n) == UNION {[1..k -> S] : k \in 0..n}

Rep(c, k) == [i \in 1..k |-> c]

JDoe == <<"J", ".", " ", "D", "o", "e">>
Labels == {JDoe, <<"A", "n", "n">>}

TitleShape ==
    [name |-> "Title 1", text |-> <<"T">>, left |-> 0, top |-> 0,
     width |-> 914400, height |-> 457200]
\* a watermark left by an earlier run, possibly of another geometry
OldMark ==
    [name |-> tag_shape_name, text |-> <<"o", "l", "d">>, left |-> 100, top |-> 200,
     width |-> 300, height |-> 400]
ShapeKinds == {TitleShape, OldMark}

SlideWidths == {914400, 2951999, 12192000}
SlideHeights == {1, 720000, 6858000}

Decks ==
    [slide_width : SlideWidths, slide_height : SlideHeights,
     slides : SeqsUpTo(SeqsUpTo(ShapeKinds, MaxShapes), MaxSlides)]

\* a three-slide deck: untouched, watermarked once, watermarked twice
Deck3 ==
    [slide_width |-> 12192000, slide_height |-> 6858000,
     slides |-> << <<TitleShape>>, <<TitleShape, OldMark>>, <<OldMark, TitleShape, OldMark>> >>]
Deck0 == [slide_width |-> 9144000, slide_height |-> 6858000, slides |-> <<>>]

ReportName ==
    <<"R","e","p","o","r","t"," ","(","F","i","n","a","l",")","!",".","p","p","t","x">>

SanAlphabet == {"a", "(", " ", ".", "\t"}
SanInputs ==
    {Rep("a", k) \o t : k \in {0, MaxNameChars - 2, MaxNameChars - 1, MaxNameChars},
                        t \in SeqsUpTo(SanAlphabet, MaxShortLen)}
    \cup {ReportName}

RequestLabels == {<<>>, <<" ", " ", " ">>, JDoe, <<" ", "A", "\t">>}
RequestFilenames ==
    {<<>>, <<"a", ".", "p", "d", "f">>, <<"a", ".", "p", "p", "t", "x">>,
     <<"Q", "1", " ", "(", "v", "2", ")", ".", "P", "P", "T", "X">>}

PayloadSizes == {1024, MaxUploadBytes, MaxUploadBytes + 1}
Payloads ==
    {[size |-> n, isZip |-> FALSE, entries |-> {}, parsable |-> FALSE, deck |-> NoDeck]
        : n \in PayloadSizes}
    \cup {[size |-> n, isZip |-> TRUE, entries |-> {"word/document.xml"},
           parsable |-> FALSE, deck |-> NoDeck] : n \in PayloadSizes}
    \cup {[size |-> n, isZip |-> TRUE, entries |-> {ManifestEntry, "word/document.xml"},
           parsable |-> FALSE, deck |-> NoDeck] : n \in PayloadSizes}
    \cup {[size |-> n, isZip |-> TRUE, entries |-> {ManifestEntry, "ppt/presentation.xml"},
           parsable |-> TRUE, deck |-> d] : n \in PayloadSizes, d \in {Deck0, Deck3}}

Requests == [label : RequestLabels, filename : RequestFilenames, payload : Payloads]

-----------------------------------------------------------------------------
(* Specifications                                                          *)

SanIdle == sanIn = <<>> /\ sanOut = <<>>
AnnIdle == deck = NoDeck /\ labels = <<>>
ProcIdle ==
    /\ pc = "idle"
    /\ req = [label |-> <<>>, filename |-> <<>>,
              payload |-> [size |-> 0, isZip |-> FALSE, entries |-> {},
                           parsable |-> FALSE, deck |-> NoDeck]]
    /\ env = [drive |-> "unset", smtp |-> "unset", probe |-> "unset"]
    /\ name = <<>> /\ origName = <<>> /\ watermarked = NoDeck
    /\ tdState = "none" /\ tdFiles = {} /\ conv = NoConv /\ pdfBytes = ""
    /\ exc = NoExc /\ calls = <<>> /\ outcome = NoOutcome

\* one request arriving at process
Init ==
    /\ SanIdle /\ AnnIdle
    /\ pc = "check_name"
    /\ req \in Requests
    /\ env = [drive |-> "unset", smtp |-> "unset", probe |-> "unset"]
    /\ name = req.label /\ origName = <<>> /\ watermarked = NoDeck
    /\ tdState = "none" /\ tdFiles = {} /\ conv = NoConv /\ pdfBytes = ""
    /\ exc = NoExc /\ calls = <<>> /\ outcome = NoOutcome

Next ==
    \/ (CheckName /\ UNCHANGED <<sanVars, annVars>>)
    \/ (CheckExtension /\ UNCHANGED <<sanVars, annVars>>)
    \/ (CheckSize /\ UNCHANGED <<sanVars, annVars>>)
    \/ (Validate /\ UNCHANGED <<sanVars, annVars>>)
    \/ (Upload /\ UNCHANGED <<sanVars, annVars>>)
    \/ (Notify /\ UNCHANGED <<sanVars, annVars>>)
    \/ (Probe /\ UNCHANGED <<sanVars, annVars>>)
    \/ (Annotate /\ UNCHANGED <<sanVars, annVars>>)
    \/ (MakeTempDir /\ UNCHANGED <<sanVars, annVars>>)
    \/ (WriteInput /\ UNCHANGED <<sanVars, annVars>>)
    \/ (Convert /\ UNCHANGED <<sanVars, annVars>>)
    \/ (ReadPdf /\ UNCHANGED <<sanVars, annVars>>)
    \/ (ExitWith /\ UNCHANGED <<sanVars, annVars>>)
    \/ (Respond /\ UNCHANGED <<sanVars, annVars>>)
    \/ (Handle /\ UNCHANGED <<sanVars, annVars>>)

Spec == Init /\ [][Next]_vars

\* a deck annotated again and again, each run on the previous run's output
InitAnnotate ==
    /\ SanIdle /\ ProcIdle
    /\ deck \in Decks
    /\ labels = <<>>

Reannotate ==
    /\ Len(labels) < MaxRuns
    /\ \E l \in Labels :
          /\ deck' = add_name_to_all_slides(deck, l)
          /\ labels' = Append(labels, l)
    /\ UNCHANGED <<sanVars, procVars>>

NextAnnotate == Reannotate

SpecAnnotate == InitAnnotate /\ [][NextAnnotate]_vars

\* sanitize_filename applied to one name
InitSanitize ==
    /\ AnnIdle /\ ProcIdle
    /\ sanIn \in SanInputs
    /\ sanOut = <<>>

Sanitize ==
    /\ sanOut = <<>>
    /\ sanOut' = sanitize_filename(sanIn)
    /\ UNCHANGED <<sanIn, annVars, procVars>>

NextSanitize == Sanitize

SpecSanitize == InitSanitize /\ [][NextSanitize]_vars

-----------------------------------------------------------------------------
(* Properties of sanitize_filename (SpecSanitize)                          *)

SanDone == sanOut # <<>>

Bad(c) == c \notin WhitelistChars

\* sanIn without its leading and trailing whitespace
SanCore ==
    LET solid == {i \in 1..Len(sanIn) : sanIn[i] \notin Whitespace}
    IN  IF solid = {} THEN <<>>
        ELSE SubSeq(sanIn, CHOOSE i \in solid : \A j \in solid : i <= j,
                           CHOOSE i \in solid : \A j \in solid : j <= i)

\* C6 as stated: every character outside [A-Za-z0-9._ -] is replaced
\* one-for-one by "_" (so the length before truncation is preserved), the
\* result is cut to 180 characters, and an empty result gives the fallback.
\* Stated for names without surrounding whitespace.
C6_OneForOne ==
    (SanDone /\ SanCore = sanIn) =>
        LET each == [i \in 1..Len(sanIn) |-> IF Bad(sanIn[i]) THEN "_" ELSE sanIn[i]]
        IN  sanOut = IF each = <<>> THEN DefaultName
                     ELSE SubSeq(each, 1, IF Len(each) < 180 THEN Len(each) ELSE 180)

\* C6 amended: after surrounding whitespace is stripped, every maximal run of
\* characters outside [A-Za-z0-9._ -] is replaced by a single "_" (characters
\* inside the class are kept in order), the result is cut to its first 180
\* characters, and the fallback name is returned when that is empty.
C6_RunsCollapsed ==
    SanDone =>
        LET t == SanCore
            dropped == {i \in 2..Len(t) : Bad(t[i]) /\ Bad(t[i - 1])}
            rank(i) == i - Cardinality({d \in dropped : d < i})
            total == Len(t) - Cardinality(dropped)
        IN  IF total = 0 THEN sanOut = DefaultName
            ELSE /\ Len(sanOut) = IF total < 180 THEN total ELSE 180
                 /\ \A i \in (1..Len(t)) \ dropped :
                       rank(i) <= 180 =>
                          sanOut[rank(i)] = IF Bad(t[i]) THEN "_" ELSE t[i]

\* "Report (Final)!.pptx" has been sanitized, to "Report _Final_.pptx"
C6_Witness ==
    /\ sanIn = ReportName
    /\ sanOut = <<"R","e","p","o","r","t"," ","_","F","i","n","a","l","_",
                  ".","p","p","t","x">>

-----------------------------------------------------------------------------
(* Properties of add_name_to_all_slides (SpecAnnotate)                     *)

MarksOn(slide) == {j \in 1..Len(slide) : slide[j].name = "__WATERMARK_NAME__"}

\* C1: after one or more annotate runs, each on the previous output, every
\* slide carries exactly one shape named with the marker, and its text is the
\* label of the last run, however many marked shapes the slide held before.
C1_OneMarkPerSlide ==
    labels # <<>> =>
        \A i \in 1..Len(deck.slides) :
            /\ Cardinality(MarksOn(deck.slides[i])) = 1
            /\ \A j \in MarksOn(deck.slides[i]) :
                  deck.slides[i][j].text = labels[Len(labels)]

\* a deck with slides has been annotated twice, with two different labels
C1_Witness ==
    /\ Len(labels) >= 2
    /\ labels[Len(labels)] # labels[Len(labels) - 1]
    /\ Len(deck.slides) >= 1

\* emu is mm millimetres: mm / 25.4 * 914400, exactly
IsMm(emu, mm) == emu * 254 = mm * 9144000

\* C8: for every slide width W and height H, the rectangle of the watermark
\* has left + width = W - 12mm and top + height = H - 10mm, with width 70mm
\* and height 10mm converted by mm / 25.4 * EMU-per-inch.
C8_Placement ==
    labels # <<>> =>
        \A i \in 1..Len(deck.slides) :
            \A j \in MarksOn(deck.slides[i]) :
                LET box == deck.slides[i][j]
                IN  /\ IsMm(box.width, 70)
                    /\ IsMm(box.height, 10)
                    /\ IsMm(deck.slide_width - (box.left + box.width), 12)
                    /\ IsMm(deck.slide_height - (box.top + box.height), 10)

\* a slide smaller than the box plus its margins has been annotated: the box
\* starts left of and above the slide
C8_Witness ==
    /\ labels # <<>>
    /\ \E i \in 1..Len(deck.slides) :
          \E j \in MarksOn(deck.slides[i]) :
              deck.slides[i][j].left < 0 /\ deck.slides[i][j].top < 0

-----------------------------------------------------------------------------
(* Properties of process (Spec)                                            *)

Stages == Range(calls)

\* the label is empty or whitespace only
BlankLabel == \A i \in 1..Len(req.label) : req.label[i] \in Whitespace

\* the file name does not end in .pptx, in any letter case
WrongExtension == ~EndsWith(Lower(req.filename), <<".", "p", "p", "t", "x">>)

\* the payload is over 50 MiB
Oversized == req.payload.size > 52428800

GateRejects == BlankLabel \/ WrongExtension \/ Oversized

ValidContainer == req.payload.isZip /\ "[Content_Types].xml" \in req.payload.entries

\* C2: a request with a non-empty label and a .pptx name within the size
\* ceiling whose payload is not a zip, or a zip without the manifest entry,
\* ends as a bad request (not as a server error) and never gets a temporary
\* directory.
C2_InvalidContainerIsBadRequest ==
    (pc = "done" /\ ~GateRejects /\ ~ValidContainer) =>
        /\ outcome.status = 400
        /\ tdState = "none"
        /\ "mkdtemp" \notin Stages

\* C3: once control has left the temporary-directory block, on the success
\* path or with an exception pending, and when the outcome is delivered, the
\* directory is not live and no file remains under it.
C3_TempDirReleased ==
    pc \in {"respond", "raised", "done"} => (tdState # "live" /\ tdFiles = {})

\* a request whose conversion failed after files were written has ended
C3_Witness ==
    /\ pc = "done"
    /\ tdState = "removed"
    /\ exc.stage = "convert"
    /\ conv.files # {}
    /\ outcome.status = 500

\* the outcome of a validated request as the probe, the deck and the renderer
\* decide it, without reference to the archival store or the notifier
OutcomeWithoutCollaborators ==
    IF env.probe # "available" THEN Failure(500, "Server misconfigured (LibreOffice missing).")
    ELSE IF ~req.payload.parsable \/ ~conv.called \/ conv.result.kind # "return"
              \/ pdfBytes = ""
         THEN Failure(500, "Server error (check logs).")
         ELSE [status |-> 200, detail |-> "", body |-> pdfBytes,
               download_name |-> PathStem(origName) \o NamedSuffix]

\* C4: for a request that passed validation, a failing or unconfigured
\* archival store or notifier is never the exception that reaches the caller,
\* never keeps the probe (and so annotation and rendering) from running, and
\* the outcome is the one the remaining stages decide.
C4_CollaboratorsIsolated ==
    (~GateRejects /\ ValidContainer) =>
        /\ exc.stage # "collaborator"
        /\ pc = "done" =>
              /\ "probe" \in Stages
              /\ outcome = OutcomeWithoutCollaborators

\* PDF bytes were returned although the archival store failed
C4_Witness ==
    /\ pc = "done"
    /\ env.drive = "fail"
    /\ outcome.status = 200

PdfIn(files) == {f \in files : f.ext = "pdf"}

\* C5: convert_pptx_to_pdf returns a path only when the tool exited zero and
\* that path is a .pdf file in the output directory; on a non-zero exit it
\* raises the conversion-failed error, pdf or no pdf; on a zero exit with no
\* .pdf file in the directory it raises the no-output error.
C5_RendererResult ==
    conv.called =>
        /\ conv.result.kind = "return" =>
              /\ ~conv.tool.raises /\ conv.tool.rc = 0
              /\ \E f \in PdfIn(conv.files) :
                    f.stem = conv.result.value.stem /\ conv.result.value.ext = "pdf"
        /\ (~conv.tool.raises /\ conv.tool.rc # 0) =>
              conv.result = Raise("RuntimeError", "PDF conversion failed (see logs).")
        /\ (~conv.tool.raises /\ conv.tool.rc = 0 /\ PdfIn(conv.files) = {}) =>
              conv.result = Raise("RuntimeError", "PDF conversion produced no output.")

\* the tool exited non-zero with a .pdf in the directory, and the call raised
C5_Witness ==
    /\ conv.called
    /\ ~conv.tool.raises /\ conv.tool.rc # 0
    /\ PdfIn(conv.files) # {}
    /\ conv.result.kind = "raise"

\* C7: a request an input gate rejects (blank label, then wrong extension,
\* then payload over 50 MiB, in that precedence) reaches no stage at all, gets
\* no temporary directory, and ends with the outcome of the first gate it
\* fails.
C7_GatesFirst ==
    GateRejects =>
        /\ calls = <<>>
        /\ tdState = "none"
        /\ pc = "done" =>
              outcome = IF BlankLabel THEN Failure(400, "Name is required.")
                        ELSE IF WrongExtension THEN Failure(400, "Upload a .pptx file.")
                        ELSE Failure(413, "File too large (max 50 MB).")

\* an oversized upload with a good label and name has been turned away
C7_Witness ==
    /\ pc = "done"
    /\ ~BlankLabel /\ ~WrongExtension /\ Oversized
    /\ outcome.status = 413

\* C9: when the availability probe reports the engine unavailable, the
\* request ends with the misconfiguration outcome, the annotator and the
\* renderer are never invoked and no temporary directory is created; a
\* request that fails in rendering ends with a different outcome.
C9_ProbeShortCircuits ==
    /\ env.probe = "unavailable" =>
          /\ Stages \cap {"annotate", "mkdtemp", "write", "convert", "read"} = {}
          /\ tdState = "none"
          /\ pc = "done" =>
                outcome = Failure(500, "Server misconfigured (LibreOffice missing).")
    /\ (pc = "done" /\ exc.stage = "convert") =>
          /\ outcome.status = 500
          /\ outcome.detail # "Server misconfigured (LibreOffice missing)."

\* a request has ended on an unavailable engine
C9_Witness == pc = "done" /\ env.probe = "unavailable"

MainStages == {"validate", "annotate", "convert", "read"}

\* C10: PDF bytes are returned only when the validator, the annotator and the
\* renderer each ran and succeeded, in that order, and the rendered file was
\* read; a stage that fails is the last stage to run, and a failed request
\* returns no bytes.
C10_AllOrNothing ==
    /\ (outcome.status = 200 \/ outcome.body # "") =>
          /\ outcome.status = 200
          /\ exc = NoExc
          /\ SelectSeq(calls, LAMBDA c : c \in MainStages)
                = <<"validate", "annotate", "convert", "read">>
          /\ ValidContainer /\ req.payload.parsable
          /\ conv.result.kind = "return"
          /\ \E f \in conv.files :
                /\ f.stem = conv.result.value.stem /\ f.ext = conv.result.value.ext
                /\ outcome.body = f.content
    /\ (exc # NoExc /\ exc.stage # "gate") => calls[Len(calls)] = exc.stage
    /\ (pc = "done" /\ exc # NoExc) => (outcome.status # 200 /\ outcome.body = "")

\* a request has ended with PDF bytes
C10_Witness == pc = "done" /\ outcome.status = 200 /\ outcome.body # ""

====
